---- MODULE Spec2Model ----
(***************************************************************************)
(* A model of ConcreteBot/Scripts/nov_report.py: the November concrete mix *)
(* report.  build_report reads every workbook of the input directory with  *)
(* load_line_items, folds the rows into two insertion-ordered maps of      *)
(* aggregates and writes both, sorted, to a CSV file.                      *)
(*                                                                         *)
(* Python values.  A cell holds None, a str, an int or a float:            *)
(*   [t |-> "None" | "str" | "int" | "float" | "nan", s |-> chars, n |-> i]*)
(* A str is the sequence of its characters; "nan" is float('nan').  The    *)
(* numbers of the model are integer valued; a float carries SigBits        *)
(* significant bits (binary64 carries 53) and every float operation rounds *)
(* to nearest, ties to even, as IEEE-754 does.                             *)
(***************************************************************************)
EXTENDS Integers, Sequences, FiniteSets, TLC

\* ---------------------------------------------------------------- bounds
SigBits == 4
MaxFiles == 2
MaxRows == 2
LongRows == 4

\* ------------------------------------------------------- Python values
PyNone == [t |-> "None", s |-> <<>>, n |-> 0]
PyStr(chars) == [t |-> "str", s |-> chars, n |-> 0]
PyInt(i) == [t |-> "int", s |-> <<>>, n |-> i]
PyFloat(i) == [t |-> "float", s |-> <<>>, n |-> i]
PyNaN == [t |-> "nan", s |-> <<>>, n |-> 0]

IsFloat(v) == v.t \in {"float", "nan"}

\* The characters of the model, in code point order.
CharOrder ==
  << " ", ",", "-", ".", "0", "1", "2", "3", "4", "5", "6", "7", "8", "9",
     "A", "B", "C", "D", "I", "L", "M", "N", "P", "Q", "R", "T", "U", "V",
     "a", "b", "c", "d", "e", "f", "i", "k", "l", "m", "n", "o", "p", "r",
     "s", "t", "u", "v", "w", "x", "y" >>

Ord(c) == CHOOSE i \in 1..Len(CharOrder) : CharOrder[i] = c

Digits == <<"0", "1", "2", "3", "4", "5", "6", "7", "8", "9">>
IsDigit(c) == \E i \in 1..10 : Digits[i] = c
DigitVal(c) == (CHOOSE i \in 1..10 : Digits[i] = c) - 1

\* str < str: the first differing character decides, a proper prefix is less.
RECURSIVE StrLt(_, _)
StrLt(a, b) ==
  IF b = <<>> THEN FALSE
  ELSE IF a = <<>> THEN TRUE
  ELSE IF Head(a) = Head(b) THEN StrLt(Tail(a), Tail(b))
  ELSE Ord(Head(a)) < Ord(Head(b))

\* str.strip()
RECURSIVE LStrip(_)
LStrip(s) == IF s /= <<>> /\ Head(s) = " " THEN LStrip(Tail(s)) ELSE s

RECURSIVE RStrip(_)
RStrip(s) ==
  IF s /= <<>> /\ s[Len(s)] = " " THEN RStrip(SubSeq(s, 1, Len(s) - 1)) ELSE s

Strip(s) == RStrip(LStrip(s))

\* str.replace(",", "")
RECURSIVE DropCommas(_)
DropCommas(s) ==
  IF s = <<>> THEN <<>>
  ELSE IF Head(s) = "," THEN DropCommas(Tail(s))
  ELSE <<Head(s)>> \o DropCommas(Tail(s))

RECURSIVE DigitsValue(_, _)
DigitsValue(s, acc) ==
  IF s = <<>> THEN acc ELSE DigitsValue(Tail(s), 10 * acc + DigitVal(Head(s)))

AllDigits(s) == s /= <<>> /\ \A i \in 1..Len(s) : IsDigit(s[i])
AllZeros(s) == \A i \in 1..Len(s) : s[i] = "0"

RECURSIVE NatToStr(_)
NatToStr(i) ==
  IF i < 10 THEN <<Digits[i + 1]>>
  ELSE NatToStr(i \div 10) \o <<Digits[(i % 10) + 1]>>

\* str(i) of an int
IntToStr(i) == IF i < 0 THEN <<"-">> \o NatToStr(-i) ELSE NatToStr(i)

\* ---------------------------------------------------------------- floats
RECURSIVE Ulp(_, _)
Ulp(x, u) == IF x < (2 ^ SigBits) * u THEN u ELSE Ulp(x, 2 * u)

\* The float nearest to the non-negative real x, ties to even.
RoundPos(x) ==
  LET u == Ulp(x, 1)
      q == x \div u
      r == x % u
  IN  IF 2 * r < u THEN q * u
      ELSE IF 2 * r > u THEN (q + 1) * u
      ELSE IF q % 2 = 0 THEN q * u
      ELSE (q + 1) * u

RoundNearest(x) == IF x < 0 THEN 0 - RoundPos(0 - x) ELSE RoundPos(x)

\* float + float
FAdd(a, b) ==
  IF a.t = "nan" \/ b.t = "nan" THEN PyNaN ELSE PyFloat(RoundNearest(a.n + b.n))

\* float * float
FMul(a, b) ==
  IF a.t = "nan" \/ b.t = "nan" THEN PyNaN ELSE PyFloat(RoundNearest(a.n * b.n))

\* float < float, float == float: every comparison with nan is False.
FLt(a, b) == a.t = "float" /\ b.t = "float" /\ a.n < b.n
FEq(a, b) == a.t = "float" /\ b.t = "float" /\ a.n = b.n

\* float(str): an optional sign and digits, digits with a zero fraction, or
\* "nan"; anything else raises ValueError, reported as PyNone.
FloatOfStr(s) ==
  LET neg == s /= <<>> /\ Head(s) = "-"
      body == IF neg THEN Tail(s) ELSE s
      dot == {i \in 1..Len(body) : body[i] = "."}
      int == IF dot = {} THEN body
             ELSE SubSeq(body, 1, (CHOOSE i \in dot : TRUE) - 1)
      frac == IF dot = {} THEN <<>>
              ELSE SubSeq(body, (CHOOSE i \in dot : TRUE) + 1, Len(body))
      mag == RoundNearest(DigitsValue(int, 0))
  IN  IF s = <<"n", "a", "n">> THEN PyNaN
      ELSE IF Cardinality(dot) <= 1 /\ AllDigits(int) /\ AllZeros(frac)
        THEN PyFloat(IF neg THEN 0 - mag ELSE mag)
      ELSE PyNone

parse_number(value) ==
  IF value.t = "None" THEN PyNone
  ELSE IF value.t \in {"int", "float"} THEN PyFloat(RoundNearest(value.n))
  ELSE IF value.t = "nan" THEN PyNaN
  ELSE LET stripped == Strip(value.s)
       IN  IF stripped = <<>> THEN PyNone
           ELSE FloatOfStr(DropCommas(stripped))

\* str(value) of a value that is no str
PyStrOf(v) ==
  IF v.t = "str" THEN v.s
  ELSE IF v.t = "int" THEN IntToStr(v.n)
  ELSE IF v.t = "float" THEN IntToStr(v.n) \o <<".", "0">>
  ELSE IF v.t = "nan" THEN <<"n", "a", "n">>
  ELSE <<"N", "o", "n", "e">>

Unknown == <<"U", "n", "k", "n", "o", "w", "n">>

normalize_text(value, fallback) ==
  IF value.t = "None" THEN fallback
  ELSE IF value.t = "str"
    THEN LET trimmed == Strip(value.s)
         IN  IF trimmed /= <<>> THEN trimmed ELSE fallback
  ELSE PyStrOf(value)

normalize_level(value) ==
  IF value.t = "None" THEN Unknown
  ELSE IF value.t \in {"int", "float"} THEN IntToStr(value.n)
  ELSE IF value.t = "nan" THEN <<"n", "a", "n">>
  ELSE LET trimmed == Strip(value.s)
       IN  IF trimmed /= <<>> THEN trimmed ELSE Unknown

\* ------------------------------------------------------------ comparisons
PyTuple(items) == [t |-> "tuple", s |-> items, n |-> 0]

\* a == b and a < b of Python, on int, float, str and tuples of them.  A tuple
\* comparison looks for the first index whose items are not equal and compares
\* those; with no such index the shorter tuple is the smaller.
RECURSIVE PyEq(_, _)
PyEq(a, b) ==
  IF a.t = "tuple" /\ b.t = "tuple"
    THEN Len(a.s) = Len(b.s) /\ \A i \in 1..Len(a.s) : PyEq(a.s[i], b.s[i])
  ELSE IF IsFloat(a) /\ IsFloat(b) THEN FEq(a, b)
  ELSE a = b

RECURSIVE PyLt(_, _)
PyLt(a, b) ==
  IF a.t = "tuple"
    THEN LET m == IF Len(a.s) < Len(b.s) THEN Len(a.s) ELSE Len(b.s)
             d == {i \in 1..m : ~PyEq(a.s[i], b.s[i])}
         IN  IF d = {} THEN Len(a.s) < Len(b.s)
             ELSE LET i == CHOOSE j \in d : \A k \in d : j <= k
                  IN  PyLt(a.s[i], b.s[i])
  ELSE IF IsFloat(a) THEN FLt(a, b)
  ELSE IF a.t = "int" THEN a.n < b.n
  ELSE StrLt(a.s, b.s)

level_sort_key(value) ==
  LET numeric == parse_number(PyStr(value))
  IN  IF numeric.t /= "None"
        THEN PyTuple(<<PyInt(0), numeric, PyStr(value)>>)
      ELSE PyTuple(<<PyInt(1), PyStr(value)>>)

\* list.sort of CPython on a short list: the leading run is counted (and
\* reversed when strictly descending), the rest is inserted by binary search.
\* e is a sequence of [k |-> sort key, v |-> item].
RECURSIVE RunLength(_, _, _)
RunLength(e, i, descending) ==
  IF i > Len(e) THEN Len(e)
  ELSE IF PyLt(e[i].k, e[i - 1].k) = descending
    THEN RunLength(e, i + 1, descending)
  ELSE i - 1

Reverse(e) == [i \in 1..Len(e) |-> e[Len(e) + 1 - i]]

RECURSIVE BinarySearch(_, _, _, _)
BinarySearch(e, pivot, l, r) ==
  IF l >= r THEN l
  ELSE LET p == l + ((r - l) \div 2)
       IN  IF PyLt(pivot.k, e[p].k) THEN BinarySearch(e, pivot, l, p)
           ELSE BinarySearch(e, pivot, p + 1, r)

RECURSIVE BinarySort(_, _)
BinarySort(e, start) ==
  IF start > Len(e) THEN e
  ELSE LET pivot == e[start]
           l == BinarySearch(e, pivot, 1, start)
           moved == SubSeq(e, 1, l - 1) \o <<pivot>> \o SubSeq(e, l, start - 1)
                      \o SubSeq(e, start + 1, Len(e))
       IN  BinarySort(moved, start + 1)

ListSort(e) ==
  IF Len(e) < 2 THEN e
  ELSE LET descending == PyLt(e[2].k, e[1].k)
           n == RunLength(e, 3, descending)
           run == SubSeq(e, 1, n)
           lead == IF descending THEN Reverse(run) ELSE run
       IN  BinarySort(lead \o SubSeq(e, n + 1, Len(e)), n + 1)

\* ------------------------------------------------------- load_line_items
ItemType == <<"I", "t", "e", "m", " ", "T", "y", "p", "e">>
ItemDescription ==
  <<"I", "t", "e", "m", " ", "D", "e", "s", "c", "r", "i", "p", "t", "i", "o", "n">>
QtyValue == <<"Q", "t", "y", " ", "V", "a", "l", "u", "e">>
QtyUnit == <<"Q", "t", "y", " ", "U", "n", "i", "t">>
UnitRate == <<"U", "n", "i", "t", " ", "R", "a", "t", "e">>
Cost == <<"C", "o", "s", "t">>
Location == <<"L", "o", "c", "a", "t", "i", "o", "n">>
Level == <<"L", "e", "v", "e", "l">>
TicketNo == <<"T", "i", "c", "k", "e", "t", " ", "N", "o", ".">>

REQUIRED_COLUMNS ==
  <<ItemType, ItemDescription, QtyValue, QtyUnit, UnitRate, Cost, Location,
    Level, TicketNo>>

\* header_map: the trimmed name of each header cell to its 0-based index, the
\* first occurrence of a name winning.
RECURSIVE HeaderMap(_, _, _)
HeaderMap(header, i, map) ==
  IF i > Len(header) THEN map
  ELSE LET name == header[i]
           key == Strip(PyStrOf(name))
       IN  IF name.t = "None" \/ key = <<>> \/ key \in DOMAIN map
             THEN HeaderMap(header, i + 1, map)
           ELSE HeaderMap(header, i + 1,
                          [k \in DOMAIN map \cup {key} |->
                             IF k = key THEN i - 1 ELSE map[k]])

EmptyMap == [k \in {} |-> 0]

\* A workbook is [sheetnames |-> set of names, sheet |-> the rows of the
\* LineItems sheet, the header row first].  The result is the list of
\* (row, header_map) of the data rows, or [] on each skip.
load_line_items(workbook) ==
  IF "LineItems" \notin workbook.sheetnames THEN <<>>
  ELSE IF workbook.sheet = <<>> THEN <<>>
  ELSE LET header_map == HeaderMap(workbook.sheet[1], 1, EmptyMap)
           missing == {i \in 1..Len(REQUIRED_COLUMNS) :
                         REQUIRED_COLUMNS[i] \notin DOMAIN header_map}
       IN  IF missing /= {} THEN <<>>
           ELSE [i \in 1..(Len(workbook.sheet) - 1) |->
                   [row |-> workbook.sheet[i + 1], header_map |-> header_map]]

\* ---------------------------------------------------------- build_report
get_value(item, name) ==
  LET idx == item.header_map[name]
  IN  IF idx < Len(item.row) THEN item.row[idx + 1] ELSE PyNone

MixCustomer == <<"M", "i", "x", " ", "C", "u", "s", "t", "o", "m", "e", "r">>

\* The default factory of both maps.
NewAggregate ==
  [total_qty |-> PyFloat(0), total_cost |-> PyFloat(0), ticket_set |-> {},
   cost_count |-> 0]

\* What the loop body finds out about one row before it touches a map.
item_type_of(item) == Strip(normalize_text(get_value(item, ItemType), <<>>))
description_of(item) ==
  Strip(normalize_text(get_value(item, ItemDescription), <<>>))
qty_value_of(item) == parse_number(get_value(item, QtyValue))

\* Disposition with the description checked before the item type.
DispositionDescriptionFirst(item) ==
  IF description_of(item) = <<>> THEN "skip_desc"
  ELSE IF item_type_of(item) = <<>> THEN "drop"
  ELSE IF qty_value_of(item).t = "None" THEN "skip_qty"
  ELSE "fold"

\* "drop", "skip_desc", "skip_qty" or "fold": the first check that fails.
Disposition(item) ==
  IF item_type_of(item) = <<>> THEN "drop"
  ELSE IF description_of(item) = <<>> THEN "skip_desc"
  ELSE IF qty_value_of(item).t = "None" THEN "skip_qty"
  ELSE "fold"

\* ComputedCost taking a Cost of zero for a cost.
ComputedCostFromZero(qty_value, unit_rate, cost) ==
  IF cost.t /= "None" /\ ~FLt(cost, PyFloat(0)) THEN cost
  ELSE IF unit_rate.t /= "None" THEN FMul(qty_value, unit_rate)
  ELSE PyNone

ComputedCost(qty_value, unit_rate, cost) ==
  IF cost.t /= "None" /\ FLt(PyFloat(0), cost) THEN cost
  ELSE IF unit_rate.t /= "None" THEN FMul(qty_value, unit_rate)
  ELSE PyNone

computed_cost_of(item) ==
  ComputedCost(qty_value_of(item), parse_number(get_value(item, UnitRate)),
               parse_number(get_value(item, Cost)))

\* IsMain comparing the cell as it is, not trimmed.
IsMainUntrimmed(item) == get_value(item, ItemType) = PyStr(MixCustomer)

IsMain(item) == item_type_of(item) = MixCustomer

KeyOf(item) ==
  LET qty_unit == normalize_text(get_value(item, QtyUnit), Unknown)
      location == normalize_text(get_value(item, Location), Unknown)
      level == normalize_level(get_value(item, Level))
  IN  IF IsMain(item)
        THEN <<location, level, description_of(item), qty_unit>>
      ELSE <<location, level, item_type_of(item), description_of(item), qty_unit>>

ticket_no_of(item) == normalize_text(get_value(item, TicketNo), <<>>)

\* FoldRow adding the ticket number to the set even when it is empty.
FoldRowKeepingEmptyTicket(agg, qty_value, computed_cost, ticket_no) ==
  [total_qty |-> FAdd(agg.total_qty, qty_value),
   total_cost |-> IF computed_cost.t /= "None"
                    THEN FAdd(agg.total_cost, computed_cost)
                  ELSE agg.total_cost,
   cost_count |-> IF computed_cost.t /= "None" THEN agg.cost_count + 1
                  ELSE agg.cost_count,
   ticket_set |-> agg.ticket_set \cup {ticket_no}]

\* FoldRow with total_qty assigned where it is added to.
FoldRowAssigningQty(agg, qty_value, computed_cost, ticket_no) ==
  [total_qty |-> qty_value,
   total_cost |-> IF computed_cost.t /= "None"
                    THEN FAdd(agg.total_cost, computed_cost)
                  ELSE agg.total_cost,
   cost_count |-> IF computed_cost.t /= "None" THEN agg.cost_count + 1
                  ELSE agg.cost_count,
   ticket_set |-> IF ticket_no /= <<>> THEN agg.ticket_set \cup {ticket_no}
                  ELSE agg.ticket_set]

\* Lines 215-220: the row folded into its aggregate.
FoldRow(agg, qty_value, computed_cost, ticket_no) ==
  [total_qty |-> FAdd(agg.total_qty, qty_value),
   total_cost |-> IF computed_cost.t /= "None"
                    THEN FAdd(agg.total_cost, computed_cost)
                  ELSE agg.total_cost,
   cost_count |-> IF computed_cost.t /= "None" THEN agg.cost_count + 1
                  ELSE agg.cost_count,
   ticket_set |-> IF ticket_no /= <<>> THEN agg.ticket_set \cup {ticket_no}
                  ELSE agg.ticket_set]

\* A defaultdict as the sequence of its [key, agg] in insertion order.
Keys(grouped) == {grouped[i].key : i \in 1..Len(grouped)}
Lookup(grouped, key) ==
  IF key \in Keys(grouped)
    THEN grouped[CHOOSE i \in 1..Len(grouped) : grouped[i].key = key].agg
  ELSE NewAggregate

Store(grouped, key, agg) ==
  IF key \in Keys(grouped)
    THEN [i \in 1..Len(grouped) |->
            IF grouped[i].key = key THEN [key |-> key, agg |-> agg]
            ELSE grouped[i]]
  ELSE Append(grouped, [key |-> key, agg |-> agg])

FoldInto(grouped, item) ==
  Store(grouped, KeyOf(item),
        FoldRow(Lookup(grouped, KeyOf(item)), qty_value_of(item),
                computed_cost_of(item), ticket_no_of(item)))

\* The maps and row counters of a run, and what one pass of the inner loop
\* (lines 179-220) makes of them.
NewTally ==
  [grouped_main |-> <<>>, grouped_additional |-> <<>>, included_main |-> 0,
   included_additional |-> 0, skipped_desc |-> 0, skipped_qty |-> 0]

RowStep(tally, item) ==
  LET d == Disposition(item)
  IN  IF d = "drop" THEN tally
      ELSE IF d = "skip_desc"
        THEN [tally EXCEPT !.skipped_desc = tally.skipped_desc + 1]
      ELSE IF d = "skip_qty"
        THEN [tally EXCEPT !.skipped_qty = tally.skipped_qty + 1]
      ELSE IF IsMain(item)
        THEN [tally EXCEPT !.grouped_main = FoldInto(tally.grouped_main, item),
                           !.included_main = tally.included_main + 1]
      ELSE [tally EXCEPT
              !.grouped_additional = FoldInto(tally.grouped_additional, item),
              !.included_additional = tally.included_additional + 1]

\* ------------------------------------------------------- the report rows
\* total_cost / total_qty.  A quotient that is no integer is kept exact, as
\* [t |-> "ratio", n |-> numerator, d |-> denominator > 0].
FDiv(a, b) ==
  IF a.t = "nan" \/ b.t = "nan" THEN PyNaN
  ELSE IF a.n % b.n = 0 THEN PyFloat(RoundNearest(a.n \div b.n))
  ELSE IF b.n < 0 THEN [t |-> "ratio", s |-> <<>>, n |-> 0 - a.n, d |-> 0 - b.n]
  ELSE [t |-> "ratio", s |-> <<>>, n |-> a.n, d |-> b.n]

Abs(i) == IF i < 0 THEN 0 - i ELSE i

\* The hundredths nearest to num / den, ties to even.
Hundredths(num, den) ==
  LET q == (100 * num) \div den
      r == (100 * num) % den
  IN  IF 2 * r < den THEN q
      ELSE IF 2 * r > den THEN q + 1
      ELSE IF q % 2 = 0 THEN q
      ELSE q + 1

TwoDecimals(negative, hundredths) ==
  (IF negative THEN <<"-">> ELSE <<>>)
    \o NatToStr(hundredths \div 100)
    \o <<".", Digits[((hundredths % 100) \div 10) + 1], Digits[(hundredths % 10) + 1]>>

\* f"{value:.2f}", and "" for None
format_number(value) ==
  IF value.t = "None" THEN <<>>
  ELSE IF value.t = "nan" THEN <<"n", "a", "n">>
  ELSE IF value.t = "ratio"
    THEN TwoDecimals(value.n < 0, Hundredths(Abs(value.n), value.d))
  ELSE TwoDecimals(value.n < 0, 100 * Abs(value.n))

\* ReportedTotalCost testing the total where it tests the count.
ReportedTotalCostIfNonZero(agg) ==
  IF agg.total_cost /= PyFloat(0) THEN agg.total_cost ELSE PyNone

ReportedTotalCost(agg) == IF agg.cost_count > 0 THEN agg.total_cost ELSE PyNone

AvgUnitRate(agg) ==
  IF ReportedTotalCost(agg).t /= "None" /\ FLt(PyFloat(0), agg.total_qty)
    THEN FDiv(ReportedTotalCost(agg), agg.total_qty)
  ELSE PyNone

\* The sort key of an entry of either map: the level first, then the other
\* parts of the key in their order.
MainSortKey(key) ==
  PyTuple(<<level_sort_key(key[2]), PyStr(key[1]), PyStr(key[3]), PyStr(key[4])>>)

AdditionalSortKey(key) ==
  PyTuple(<<level_sort_key(key[2]), PyStr(key[1]), PyStr(key[3]), PyStr(key[4]),
            PyStr(key[5])>>)

MainLine(entry) ==
  [key |-> entry.key,
   level |-> entry.key[2], location |-> entry.key[1], item_type |-> MixCustomer,
   description |-> entry.key[3],
   ticket_count |-> Cardinality(entry.agg.ticket_set),
   total_qty |-> format_number(entry.agg.total_qty),
   qty_unit |-> entry.key[4],
   unit_rate |-> format_number(AvgUnitRate(entry.agg)),
   total_cost |-> format_number(ReportedTotalCost(entry.agg))]

AdditionalLine(entry) ==
  [key |-> entry.key,
   level |-> entry.key[2], location |-> entry.key[1], item_type |-> entry.key[3],
   description |-> entry.key[4],
   ticket_count |-> Cardinality(entry.agg.ticket_set),
   total_qty |-> format_number(entry.agg.total_qty),
   qty_unit |-> entry.key[5],
   unit_rate |-> format_number(AvgUnitRate(entry.agg)),
   total_cost |-> format_number(ReportedTotalCost(entry.agg))]

MainSection(grouped) ==
  LET e == ListSort([i \in 1..Len(grouped) |->
                       [k |-> MainSortKey(grouped[i].key), v |-> grouped[i]]])
  IN  [i \in 1..Len(e) |-> MainLine(e[i].v)]

AdditionalSection(grouped) ==
  LET e == ListSort([i \in 1..Len(grouped) |->
                       [k |-> AdditionalSortKey(grouped[i].key), v |-> grouped[i]]])
  IN  [i \in 1..Len(e) |-> AdditionalLine(e[i].v)]

\* --------------------------------------------- the run as one function
\* Lines 169-220 and 222-292 over a whole directory: the tally, the number of
\* workbooks that gave items, and the two sections.
RECURSIVE RunRows(_, _, _)
RunRows(tally, loaded, i) ==
  IF i > Len(loaded) THEN tally
  ELSE RunRows(RowStep(tally, loaded[i]), loaded, i + 1)

RECURSIVE RunFiles(_, _, _)
RunFiles(run, paths, i) ==
  IF i > Len(paths) THEN run
  ELSE LET loaded == load_line_items(paths[i])
       IN  IF loaded = <<>> THEN RunFiles(run, paths, i + 1)
           ELSE RunFiles([tally |-> RunRows(run.tally, loaded, 1),
                          processed_files |-> run.processed_files + 1],
                         paths, i + 1)

RunOf(paths) ==
  LET run == RunFiles([tally |-> NewTally, processed_files |-> 0], paths, 1)
  IN  [tally |-> run.tally, processed_files |-> run.processed_files,
       report |-> <<MainSection(run.tally.grouped_main),
                    AdditionalSection(run.tally.grouped_additional)>>]

\* ------------------------------------------------------------- the state
VARIABLES
  xlsx_paths,          \* the workbooks of the input directory, sorted by name
  pc,                  \* "start", "files", "rows", "done" or "exit"
  file_index,          \* the workbook the outer loop is at (1-based)
  items,               \* the items of the workbook being read
  row_index,           \* the item the inner loop is at (1-based)
  grouped_main,
  grouped_additional,
  included_main,
  included_additional,
  skipped_desc,
  skipped_qty,
  processed_files,
  open_handles,        \* the workbooks whose file handle is open
  report               \* the sections written, <<>> before

vars ==
  <<xlsx_paths, pc, file_index, items, row_index, grouped_main,
    grouped_additional, included_main, included_additional, skipped_desc,
    skipped_qty, processed_files, open_handles, report>>

counters ==
  <<included_main, included_additional, skipped_desc, skipped_qty,
    processed_files>>

Tally ==
  [grouped_main |-> grouped_main, grouped_additional |-> grouped_additional,
   included_main |-> included_main, included_additional |-> included_additional,
   skipped_desc |-> skipped_desc, skipped_qty |-> skipped_qty]

InitOver(inputs) ==
  /\ xlsx_paths \in inputs
  /\ pc = "start"
  /\ file_index = 1
  /\ items = <<>>
  /\ row_index = 1
  /\ grouped_main = <<>>
  /\ grouped_additional = <<>>
  /\ included_main = 0
  /\ included_additional = 0
  /\ skipped_desc = 0
  /\ skipped_qty = 0
  /\ processed_files = 0
  /\ open_handles = {}
  /\ report = <<>>

\* Lines 145-148: no workbook in the directory ends the run with status 1.
NoFiles ==
  /\ pc = "start"
  /\ xlsx_paths = <<>>
  /\ pc' = "exit"
  /\ UNCHANGED <<xlsx_paths, file_index, items, row_index, grouped_main,
                 grouped_additional, counters, open_handles, report>>

\* Lines 150-167: the maps and counters are set up.
Begin ==
  /\ pc = "start"
  /\ xlsx_paths /= <<>>
  /\ pc' = "files"
  /\ UNCHANGED <<xlsx_paths, file_index, items, row_index, grouped_main,
                 grouped_additional, counters, open_handles, report>>

\* LoadFile counting every workbook it opens as processed.
LoadFileCountingSkips ==
  /\ pc = "files"
  /\ file_index <= Len(xlsx_paths)
  /\ LET loaded == load_line_items(xlsx_paths[file_index])
     IN  /\ open_handles' = open_handles \cup {file_index}
         /\ items' = loaded
         /\ row_index' = 1
         /\ processed_files' = processed_files + 1
         /\ IF loaded = <<>>
              THEN /\ file_index' = file_index + 1
                   /\ pc' = "files"
              ELSE /\ pc' = "rows"
                   /\ UNCHANGED file_index
  /\ UNCHANGED <<xlsx_paths, grouped_main, grouped_additional, included_main,
                 included_additional, skipped_desc, skipped_qty, report>>

\* Lines 169-173: the next workbook is opened and read; no items, no count.
\* load_workbook opens the file and nothing in load_line_items closes it.
LoadFile ==
  /\ pc = "files"
  /\ file_index <= Len(xlsx_paths)
  /\ LET loaded == load_line_items(xlsx_paths[file_index])
     IN  /\ open_handles' = open_handles \cup {file_index}
         /\ items' = loaded
         /\ row_index' = 1
         /\ IF loaded = <<>>
              THEN /\ file_index' = file_index + 1
                   /\ pc' = "files"
                   /\ UNCHANGED processed_files
              ELSE /\ processed_files' = processed_files + 1
                   /\ pc' = "rows"
                   /\ UNCHANGED file_index
  /\ UNCHANGED <<xlsx_paths, grouped_main, grouped_additional, included_main,
                 included_additional, skipped_desc, skipped_qty, report>>

\* Lines 174-220: one pass of the inner loop.
ProcessRow ==
  /\ pc = "rows"
  /\ row_index <= Len(items)
  /\ LET after == RowStep(Tally, items[row_index])
     IN  /\ grouped_main' = after.grouped_main
         /\ grouped_additional' = after.grouped_additional
         /\ included_main' = after.included_main
         /\ included_additional' = after.included_additional
         /\ skipped_desc' = after.skipped_desc
         /\ skipped_qty' = after.skipped_qty
  /\ IF row_index = Len(items)
       THEN /\ pc' = "files"
            /\ file_index' = file_index + 1
            /\ row_index' = 1
       ELSE /\ row_index' = row_index + 1
            /\ UNCHANGED <<pc, file_index>>
  /\ UNCHANGED <<xlsx_paths, items, processed_files, open_handles, report>>

\* Lines 222-299: both sections are written, sorted.
WriteReport ==
  /\ pc = "files"
  /\ file_index > Len(xlsx_paths)
  /\ report' = <<MainSection(grouped_main), AdditionalSection(grouped_additional)>>
  /\ pc' = "done"
  /\ UNCHANGED <<xlsx_paths, file_index, items, row_index, grouped_main,
                 grouped_additional, counters, open_handles>>

\* A workbook that load_line_items has returned from is unreachable and still
\* open; the interpreter's collector closes such handles when it runs, which
\* it may do at any point of the run or not at all.
CollectGarbage ==
  /\ pc \in {"files", "rows"}
  /\ open_handles /= {}
  /\ open_handles' = {}
  /\ UNCHANGED <<xlsx_paths, pc, file_index, items, row_index, grouped_main,
                 grouped_additional, counters, report>>

Next ==
  \/ NoFiles
  \/ Begin
  \/ LoadFile
  \/ ProcessRow
  \/ WriteReport
  \/ CollectGarbage

\* ------------------------------------------------------------ the inputs
\* Values of the cells the inputs are made of.
Pump == <<"P", "u", "m", "p">>
MPa30 == <<"3", "0", "M", "P", "a">>
M3 == <<"m", "3">>
L1 == <<"L", "1">>
T1 == <<"T", "1">>
T2 == <<"T", "2">>
Abc == <<"a", "b", "c">>
Blank == <<" ">>
Pad(chars) == <<" ">> \o chars \o <<" ">>

\* A data row under the standard header, cell by cell.
Row(item_type, description, qty, unit, rate, cost, location, level, ticket) ==
  <<item_type, description, qty, unit, rate, cost, location, level, ticket>>

StdHeader == [i \in 1..Len(REQUIRED_COLUMNS) |-> PyStr(REQUIRED_COLUMNS[i])]

\* The standard header behind an empty cell, its names padded, and a second,
\* later "Cost" column that must lose to the first.
PaddedHeader ==
  <<PyNone>> \o [i \in 1..Len(REQUIRED_COLUMNS) |-> PyStr(Pad(REQUIRED_COLUMNS[i]))]
    \o <<PyStr(Cost)>>

\* The standard header without its last column, Ticket No.
ShortHeader == SubSeq(StdHeader, 1, Len(StdHeader) - 1)

NoSheetBook == [sheetnames |-> {"Summary"}, sheet |-> <<>>]
EmptySheetBook == [sheetnames |-> {"LineItems"}, sheet |-> <<>>]
MissingColumnsBook(rows) ==
  [sheetnames |-> {"LineItems"},
   sheet |-> <<ShortHeader>> \o [i \in 1..Len(rows) |-> SubSeq(rows[i], 1, 8)]]
Book(rows) == [sheetnames |-> {"LineItems", "Summary"}, sheet |-> <<StdHeader>> \o rows]
PaddedBook(rows) ==
  [sheetnames |-> {"LineItems"},
   sheet |-> <<PaddedHeader>> \o
             [i \in 1..Len(rows) |-> <<PyStr(Abc)>> \o rows[i] \o <<PyInt(9)>>]]

SeqsUpTo(S, n) == UNION {[1..k -> S] : k \in 0..n}

MainRow ==
  Row(PyStr(MixCustomer), PyStr(MPa30), PyInt(2), PyStr(M3), PyInt(3), PyNone,
      PyStr(L1), PyInt(1), PyStr(T1))
PumpRow ==
  Row(PyStr(Pump), PyStr(MPa30), PyStr(<<"1">>), PyStr(M3), PyNone, PyFloat(5),
      PyStr(L1), PyFloat(2), PyStr(T2))
\* A row cut short after Qty Value: the cells behind it read as None.
CutRow == <<PyStr(Pad(MixCustomer)), PyStr(MPa30), PyInt(1)>>

\* Directories that take the run through every path of the two loops.
Books ==
  {NoSheetBook, EmptySheetBook, MissingColumnsBook(<<MainRow>>), Book(<<>>),
   Book(<<PumpRow>>), PaddedBook(<<MainRow, CutRow>>)}

Directories == SeqsUpTo(Books, MaxFiles)

\* One workbook of up to n rows of the pool.
OneBook(pool, n) == {<<Book(rows)>> : rows \in SeqsUpTo(pool, n) \ {<<>>}}

Init == InitOver(Directories)

Spec == Init /\ [][Next]_vars

\* Rows of one Main Mixes key over the presence and sign of Cost and Unit
\* Rate, and rows of the same key over the sign of Qty Value.
CostRow(rate, cost) ==
  Row(PyStr(MixCustomer), PyStr(MPa30), PyInt(2), PyStr(M3), rate, cost,
      PyStr(L1), PyInt(1), PyStr(T1))
QtyRow(qty) ==
  Row(PyStr(MixCustomer), PyStr(MPa30), qty, PyStr(M3), PyInt(3), PyNone,
      PyStr(L1), PyInt(1), PyStr(T1))

CostPool ==
  {CostRow(rate, cost) :
     rate \in {PyStr(Abc), PyInt(0), PyInt(-1), PyStr(<<" ", "3">>)},
     cost \in {PyNone, PyInt(0), PyInt(-2), PyFloat(5)}}
    \cup {QtyRow(qty) : qty \in {PyInt(-3), PyInt(0), PyStr(<<"-", "1">>), PyInt(16)}}

SpecCost == InitOver(Directories \cup OneBook(CostPool, MaxRows)) /\ [][Next]_vars

\* Rows over a blank, a main and another Item Type, a blank and a filled
\* Item Description and a numeric and a non-numeric Qty Value, and rows whose
\* cells are absent, padded, differently cased or no text.
LowerMixCustomer == <<"m", "i", "x", " ", "c", "u", "s", "t", "o", "m", "e", "r">>

CheckRow(item_type, description, qty) ==
  Row(item_type, description, qty, PyStr(M3), PyInt(3), PyNone, PyStr(L1),
      PyStr(<<"2">>), PyStr(T1))

RowPool ==
  {CheckRow(item_type, description, qty) :
     item_type \in {PyStr(Blank), PyStr(MixCustomer), PyStr(Pump)},
     description \in {PyStr(Blank), PyStr(MPa30)},
     qty \in {PyStr(Abc), PyInt(1)}}
    \cup {CheckRow(PyNone, PyNone, PyNone),
          CheckRow(PyStr(Pad(MixCustomer)), PyStr(Pad(MPa30)), PyStr(<<"1">>)),
          CheckRow(PyStr(LowerMixCustomer), PyStr(MPa30), PyInt(1)),
          CheckRow(PyInt(7), PyStr(MPa30), PyStr(<<>>)),
          Row(PyStr(MixCustomer), PyStr(MPa30), PyInt(1), PyNone, PyInt(3), PyNone,
              PyStr(Blank), PyNone, PyNone)}

SpecRows == InitOver(Directories \cup OneBook(RowPool, MaxRows)) /\ [][Next]_vars

\* The rows of a sequence dealt over consecutive workbooks: one workbook per
\* stretch between the cuts.
NthBound(bounds, k) == CHOOSE b \in bounds : Cardinality({c \in bounds : c < b}) = k - 1

Split(rows, cuts) ==
  LET bounds == cuts \cup {0, Len(rows)}
  IN  [k \in 1..(Cardinality(bounds) - 1) |->
         Book(SubSeq(rows, NthBound(bounds, k) + 1, NthBound(bounds, k + 1)))]

SplitBooks(pool, n) ==
  UNION {{Split(rows, cuts) :
            cuts \in {c \in SUBSET (1..(Len(rows) - 1)) : Cardinality(c) < MaxFiles}} :
           rows \in SeqsUpTo(pool, n) \ {<<>>}}

\* Rows of one Main Mixes key over the Ticket No. cell, and a row of another
\* section with a ticket of the first.
TicketRow(ticket) ==
  Row(PyStr(MixCustomer), PyStr(MPa30), PyInt(1), PyStr(M3), PyNone, PyNone,
      PyStr(L1), PyInt(1), ticket)

TicketPool ==
  {TicketRow(ticket) :
     ticket \in {PyStr(T1), PyStr(Pad(T1)), PyStr(T2), PyStr(Blank), PyNone, PyInt(7)}}
    \cup {Row(PyStr(Pump), PyStr(MPa30), PyInt(1), PyStr(M3), PyNone, PyNone,
              PyStr(L1), PyInt(1), PyStr(T1))}

SpecTickets ==
  InitOver(Directories \cup SplitBooks(TicketPool, MaxRows)) /\ [][Next]_vars

\* Rows of one Main Mixes key whose quantities do not add up exactly in every
\* order (16 + 1 is no float of SigBits bits), and a row of another key.
OrderPool ==
  {QtyRow(PyInt(16)), QtyRow(PyInt(1)),
   Row(PyStr(Pump), PyStr(MPa30), PyInt(1), PyStr(M3), PyInt(16), PyNone,
       PyStr(L1), PyInt(1), PyStr(T2))}

SpecOrder ==
  InitOver(Directories \cup SplitBooks(OrderPool, LongRows)) /\ [][Next]_vars

\* Rows over the Level cell: numbers out of string order, text, and "nan",
\* which float() reads as a number; and rows that differ behind the level.
L2 == <<"L", "2">>
Roof == <<"R", "o", "o", "f">>
LevelRow(level, location) ==
  Row(PyStr(MixCustomer), PyStr(MPa30), PyInt(1), PyStr(M3), PyNone, PyNone,
      PyStr(location), PyStr(level), PyStr(T1))

SortPool ==
  {LevelRow(level, L1) :
     level \in {<<"1", "0">>, <<"2">>, Roof, <<"1">>, <<"n", "a", "n">>}}
    \cup {LevelRow(<<"2">>, L2),
          Row(PyStr(Pump), PyStr(MPa30), PyInt(1), PyStr(M3), PyNone, PyNone,
              PyStr(L1), PyFloat(2), PyStr(T1))}

SpecSort == InitOver(Directories \cup OneBook(SortPool, LongRows)) /\ [][Next]_vars

\* ========================================================== the claims
\* What a reader of the workbook alone can tell: the trimmed names of its
\* header cells, and whether the workbook is one the run must skip.
HeaderNames(workbook) ==
  {Strip(PyStrOf(workbook.sheet[1][i])) :
     i \in {j \in 1..Len(workbook.sheet[1]) : workbook.sheet[1][j].t /= "None"}}

IsSkipped(workbook) ==
  \/ "LineItems" \notin workbook.sheetnames
  \/ workbook.sheet = <<>>
  \/ \E i \in 1..Len(REQUIRED_COLUMNS) : REQUIRED_COLUMNS[i] \notin HeaderNames(workbook)

NotSkipped(workbook) == ~IsSkipped(workbook)
Kept(paths) == SelectSeq(paths, NotSkipped)

AtSkippedFile ==
  /\ pc = "files"
  /\ file_index <= Len(xlsx_paths)
  /\ IsSkipped(xlsx_paths[file_index])

\* C7: a workbook without the LineItems sheet, with an empty one or without
\* a required column is skipped without ending the run: reading it changes
\* no aggregate and no counter (files processed included) and moves on to
\* the next workbook; the run is never left without a workbook to read, a
\* row to fold or the report to write, and what it has when the report is
\* written is what the workbooks that are not skipped give alone.
C7_SkippedFileIsNotFatal ==
  /\ [][(AtSkippedFile /\ <<pc, file_index, items>>' /= <<pc, file_index, items>>)
          => /\ Tally' = Tally
             /\ processed_files' = processed_files
             /\ pc' = "files"
             /\ file_index' = file_index + 1]_vars
  /\ [](/\ pc = "files" => file_index \in 1..(Len(xlsx_paths) + 1)
        /\ pc = "rows" => file_index \in 1..Len(xlsx_paths) /\ row_index \in 1..Len(items))
  /\ [](pc = "done" =>
          /\ Len(report) = 2
          /\ Tally = RunOf(Kept(xlsx_paths)).tally
          /\ report = RunOf(Kept(xlsx_paths)).report
          /\ processed_files =
               Cardinality({i \in 1..Len(xlsx_paths) :
                              /\ ~IsSkipped(xlsx_paths[i])
                              /\ Len(xlsx_paths[i].sheet) > 1}))

\* A run whose first workbook lacks a required column and whose second is
\* read and aggregated.
C7_Witness ==
  /\ pc = "done"
  /\ Len(xlsx_paths) = 2
  /\ xlsx_paths[1] = MissingColumnsBook(<<MainRow>>)
  /\ xlsx_paths[2] = Book(<<PumpRow>>)
  /\ processed_files = 1
  /\ included_additional = 1
  /\ included_main = 0
  /\ Len(report[2]) = 1

\* C8: every workbook handle opened by load_line_items is released when it
\* returns, on the skip paths as on success, so none is open while the run
\* goes on to the next workbook or when it ends.
C8_HandlesReleased == pc \in {"files", "rows", "done"} => open_handles = {}

\* ---------------------------------------------------------------------
\* The row the inner loop is at, and a step that folds it.
AtRow == pc = "rows" /\ row_index <= Len(items)
RowDone == <<pc, row_index>>' /= <<pc, row_index>>
Folding == AtRow /\ Disposition(items[row_index]) = "fold" /\ RowDone

\* The aggregate of the row's key before and after the step.
MapOf(item) == IF IsMain(item) THEN grouped_main ELSE grouped_additional
MapOfAfter(item) == IF IsMain(item) THEN grouped_main' ELSE grouped_additional'
Before(item) == Lookup(MapOf(item), KeyOf(item))
After(item) == Lookup(MapOfAfter(item), KeyOf(item))

RawQty(item) == parse_number(get_value(item, QtyValue))
RawRate(item) == parse_number(get_value(item, UnitRate))
RawCost(item) == parse_number(get_value(item, Cost))

\* C1: a folded row's cost is its Cost when that parses to a number above
\* zero; else Qty Value times Unit Rate when Unit Rate parses to a number,
\* whatever its sign; else none, and then the row adds to total_qty alone:
\* total_cost and cost_count stay as they were.
C1_CostDerivation ==
  [][Folding =>
       LET item == items[row_index]
           q == RawQty(item).n
           r == RawRate(item)
           c == RawCost(item)
           was == Before(item)
           now == After(item)
       IN  /\ now.total_qty.n = RoundNearest(was.total_qty.n + q)
           /\ IF c.t = "float" /\ c.n > 0
                THEN /\ now.total_cost.n = RoundNearest(was.total_cost.n + c.n)
                     /\ now.cost_count = was.cost_count + 1
              ELSE IF r.t = "float"
                THEN /\ now.total_cost.n =
                          RoundNearest(was.total_cost.n + RoundNearest(q * r.n))
                     /\ now.cost_count = was.cost_count + 1
              ELSE /\ now.total_cost = was.total_cost
                   /\ now.cost_count = was.cost_count]_vars

\* One row with Cost 0 and Unit Rate -1 folded: the cost is 2 * -1.
C1_Witness ==
  /\ xlsx_paths = <<Book(<<CostRow(PyInt(-1), PyInt(0))>>)>>
  /\ pc = "files"
  /\ file_index = 2
  /\ Lookup(grouped_main, <<L1, <<"1">>, MPa30, M3>>).total_cost = PyFloat(-2)
  /\ Lookup(grouped_main, <<L1, <<"1">>, MPa30, M3>>).cost_count = 1

\* C9 as claimed: no step makes the total_qty of any aggregate smaller.
C9_TotalQtyNeverDecreases ==
  [][/\ \A k \in Keys(grouped_main) :
          Lookup(grouped_main', k).total_qty.n >= Lookup(grouped_main, k).total_qty.n
     /\ \A k \in Keys(grouped_additional) :
          Lookup(grouped_additional', k).total_qty.n
            >= Lookup(grouped_additional, k).total_qty.n]_vars

\* C9 as amended: a fold adds the row's Qty Value to the total_qty of the
\* row's aggregate; the total is not smaller after a row whose Qty Value is
\* zero or more and not larger after a row whose Qty Value is below zero
\* (such a row passes the exclusion checks); no other step changes a total.
C9_TotalQtyFollowsSign ==
  [][/\ Folding =>
          LET item == items[row_index]
              q == RawQty(item).n
              was == Before(item).total_qty.n
              now == After(item).total_qty.n
          IN  /\ now = RoundNearest(was + q)
              /\ q >= 0 => now >= was
              /\ q < 0 => now =< was
     /\ \A k \in Keys(grouped_main) :
          (~Folding \/ ~IsMain(items[row_index]) \/ k /= KeyOf(items[row_index]))
            => Lookup(grouped_main', k).total_qty = Lookup(grouped_main, k).total_qty
     /\ \A k \in Keys(grouped_additional) :
          (~Folding \/ IsMain(items[row_index]) \/ k /= KeyOf(items[row_index]))
            => Lookup(grouped_additional', k).total_qty
                 = Lookup(grouped_additional, k).total_qty]_vars

\* Qty Value 2 and then 16 folded under one key.
C9_Witness ==
  /\ pc = "files"
  /\ included_main = 2
  /\ xlsx_paths = <<Book(<<CostRow(PyInt(0), PyNone), QtyRow(PyInt(16))>>)>>
  /\ Lookup(grouped_main, <<L1, <<"1">>, MPa30, M3>>).total_qty = PyFloat(18)

\* ---------------------------------------------------------------------
\* The rows of the directory that the run folds, as (workbook, row) pairs,
\* and those of them that go to a key of a section.
ItemAt(f, i) == load_line_items(xlsx_paths[f])[i]

FoldedRows ==
  {fi \in UNION {{<<f, i>> : i \in 1..Len(load_line_items(xlsx_paths[f]))} :
                   f \in 1..Len(xlsx_paths)} :
     Disposition(ItemAt(fi[1], fi[2])) = "fold"}

RowsOf(main, key) ==
  {fi \in FoldedRows :
     IsMain(ItemAt(fi[1], fi[2])) = main /\ KeyOf(ItemAt(fi[1], fi[2])) = key}

\* A row whose cost can be derived: a Cost above zero or a numeric Unit Rate.
HasCost(item) ==
  \/ RawCost(item).t = "float" /\ RawCost(item).n > 0
  \/ RawRate(item).t = "float"

\* The hundredths a field of the form [-]digits.dd stands for.
FieldHundredths(field) ==
  LET value == DigitsValue(SelectSeq(field, IsDigit), 0)
  IN  IF Head(field) = "-" THEN 0 - value ELSE value

IsTwoDecimals(field) ==
  /\ Len(field) >= 4
  /\ field[Len(field) - 2] = "."
  /\ IsDigit(field[Len(field) - 1]) /\ IsDigit(field[Len(field)])

LineOk(main, grouped, line) ==
  LET agg == Lookup(grouped, line.key)
      cost == agg.total_cost.n
      qty == agg.total_qty.n
  IN  /\ (line.total_cost = <<>>) <=> (agg.cost_count = 0)
      /\ (agg.cost_count = 0)
           <=> (\A fi \in RowsOf(main, line.key) : ~HasCost(ItemAt(fi[1], fi[2])))
      /\ line.total_cost /= <<>> =>
           /\ IsTwoDecimals(line.total_cost)
           /\ FieldHundredths(line.total_cost) = 100 * cost
      /\ (line.unit_rate /= <<>>) <=> (line.total_cost /= <<>> /\ qty > 0)
      /\ line.unit_rate /= <<>> =>
           /\ IsTwoDecimals(line.unit_rate)
           /\ 2 * Abs(FieldHundredths(line.unit_rate) * qty - 100 * cost) =< qty

\* C5: in the written report the Total Cost field of an aggregate is empty
\* exactly when its cost_count is 0, that is when no row folded into the key
\* had a cost, and holds total_cost otherwise (zero and negative totals
\* too); the Unit Rate field is filled exactly when Total Cost is and
\* total_qty is above zero, with total_cost / total_qty.
C5_ReportedCostAndRate ==
  pc = "done" =>
    /\ \A i \in 1..Len(report[1]) : LineOk(TRUE, grouped_main, report[1][i])
    /\ \A i \in 1..Len(report[2]) : LineOk(FALSE, grouped_additional, report[2][i])

\* A report line of two rows whose costs are 2 * 0 and 2 * 0: the total is
\* a real zero and is written as 0.00, as is the rate.
C5_Witness ==
  /\ pc = "done"
  /\ Len(report[1]) = 1
  /\ Lookup(grouped_main, report[1][1].key).cost_count = 2
  /\ report[1][1].total_cost = <<"0", ".", "0", "0">>
  /\ report[1][1].unit_rate = <<"0", ".", "0", "0">>

\* ---------------------------------------------------------------------
\* A cell that is blank after trim, and one that is no number.
BlankCell(cell) == cell.t = "None" \/ (cell.t = "str" /\ Strip(cell.s) = <<>>)
NonNumericCell(cell) == parse_number(cell).t = "None"

\* C4: the first failing check, in the order Item Type, Item Description,
\* Qty Value, decides a row: a blank Item Type changes no counter and no
\* aggregate, whatever the rest of the row; else a blank Item Description
\* adds 1 to the blank-description counter and nothing else; else a
\* non-numeric Qty Value adds 1 to the non-numeric-quantity counter and
\* nothing else; a row that is dropped changes no aggregate and neither
\* included-rows counter, and a row that is not adds 1 to one of those.
C4_FirstFailingCheckDecides ==
  [][(AtRow /\ RowDone) =>
       LET item == items[row_index]
       IN  /\ processed_files' = processed_files
           /\ IF BlankCell(get_value(item, ItemType)) THEN Tally' = Tally
              ELSE IF BlankCell(get_value(item, ItemDescription))
                THEN Tally' = [Tally EXCEPT !.skipped_desc = skipped_desc + 1]
              ELSE IF NonNumericCell(get_value(item, QtyValue))
                THEN Tally' = [Tally EXCEPT !.skipped_qty = skipped_qty + 1]
              ELSE /\ skipped_desc' = skipped_desc
                   /\ skipped_qty' = skipped_qty
                   /\ included_main' + included_additional'
                        = included_main + included_additional + 1]_vars

\* A row with a blank Item Type, a blank Item Description and a Qty Value
\* that is no number has been read, followed by one with a blank description
\* only: one skip is counted, for the second row.
C4_Witness ==
  /\ xlsx_paths = <<Book(<<CheckRow(PyStr(Blank), PyStr(Blank), PyStr(Abc)),
                           CheckRow(PyStr(Pump), PyStr(Blank), PyStr(Abc))>>)>>
  /\ pc = "files"
  /\ file_index = 2
  /\ skipped_desc = 1
  /\ skipped_qty = 0

\* The text of a cell after trim, and the parts of a row's key.
CellText(cell) == IF cell.t = "str" THEN Strip(cell.s) ELSE PyStrOf(cell)
TextOr(cell, fallback) == IF BlankCell(cell) THEN fallback ELSE CellText(cell)
LevelText(cell) ==
  IF BlankCell(cell) THEN Unknown
  ELSE IF cell.t = "float" THEN IntToStr(cell.n)
  ELSE CellText(cell)

MainKey(item) ==
  <<TextOr(get_value(item, Location), Unknown), LevelText(get_value(item, Level)),
    CellText(get_value(item, ItemDescription)),
    TextOr(get_value(item, QtyUnit), Unknown)>>

AdditionalKey(item) ==
  <<TextOr(get_value(item, Location), Unknown), LevelText(get_value(item, Level)),
    CellText(get_value(item, ItemType)),
    CellText(get_value(item, ItemDescription)),
    TextOr(get_value(item, QtyUnit), Unknown)>>

\* The step folds the row into the aggregate of key in map `own` and leaves
\* every other aggregate of it as it was.
FoldsUnder(own, ownAfter, key, qty) ==
  /\ Keys(ownAfter) = Keys(own) \cup {key}
  /\ Len(ownAfter) = Cardinality(Keys(ownAfter))
  /\ \A k \in Keys(own) \ {key} : Lookup(ownAfter, k) = Lookup(own, k)
  /\ Lookup(ownAfter, key).total_qty.n
       = RoundNearest(Lookup(own, key).total_qty.n + qty)

\* C10: a row that passes the checks is folded into one aggregate of one
\* section: into Main Mixes under (location, level, description, qty unit)
\* when its trimmed Item Type is exactly "Mix Customer", adding 1 to the
\* Main counter only; else into Additional Mixes under (location, level,
\* item type, description, qty unit), adding 1 to the Additional counter
\* only.  The fold makes the aggregate when the key is new, changes no other
\* aggregate, and no step takes an aggregate away.
C10_OneAggregateOfOneSection ==
  [][/\ Keys(grouped_main) \subseteq Keys(grouped_main')
     /\ Keys(grouped_additional) \subseteq Keys(grouped_additional')
     /\ Folding =>
          LET item == items[row_index]
              qty == RawQty(item).n
          IN  IF CellText(get_value(item, ItemType)) = MixCustomer
                THEN /\ FoldsUnder(grouped_main, grouped_main', MainKey(item), qty)
                     /\ grouped_additional' = grouped_additional
                     /\ included_main' = included_main + 1
                     /\ included_additional' = included_additional
                ELSE /\ FoldsUnder(grouped_additional, grouped_additional',
                                   AdditionalKey(item), qty)
                     /\ grouped_main' = grouped_main
                     /\ included_additional' = included_additional + 1
                     /\ included_main' = included_main]_vars

\* A padded " Mix Customer " row and a "mix customer" row have been folded:
\* one aggregate in each section.
C10_Witness ==
  /\ xlsx_paths =
       <<Book(<<CheckRow(PyStr(Pad(MixCustomer)), PyStr(Pad(MPa30)), PyStr(<<"1">>)),
                CheckRow(PyStr(LowerMixCustomer), PyStr(MPa30), PyInt(1))>>)>>
  /\ pc = "files"
  /\ Keys(grouped_main) = {<<L1, <<"2">>, MPa30, M3>>}
  /\ Keys(grouped_additional) = {<<L1, <<"2">>, LowerMixCustomer, MPa30, M3>>}
  /\ included_main = 1
  /\ included_additional = 1

\* ---------------------------------------------------------------------
\* The folded rows the run is past, and the ticket numbers among those of a
\* key that are not empty.
Past(fi) ==
  \/ fi[1] < file_index
  \/ fi[1] = file_index /\ pc = "rows" /\ fi[2] < row_index

TicketsSoFar(main, key) ==
  {TextOr(get_value(ItemAt(fi[1], fi[2]), TicketNo), <<>>) :
     fi \in {x \in RowsOf(main, key) : Past(x)}} \ {<<>>}

\* C3: at every point of the run the ticket count of an aggregate is the
\* number of distinct non-empty Ticket No. values among the rows folded into
\* its key so far, whichever workbooks they came from, and that is the count
\* the report gives: a ticket seen again counts once, an empty one not at all.
C3_TicketCountIsDistinctTickets ==
  /\ \A k \in Keys(grouped_main) :
       Cardinality(Lookup(grouped_main, k).ticket_set)
         = Cardinality(TicketsSoFar(TRUE, k))
  /\ \A k \in Keys(grouped_additional) :
       Cardinality(Lookup(grouped_additional, k).ticket_set)
         = Cardinality(TicketsSoFar(FALSE, k))
  /\ pc = "done" =>
       /\ \A i \in 1..Len(report[1]) :
            report[1][i].ticket_count
              = Cardinality(TicketsSoFar(TRUE, report[1][i].key))
       /\ \A i \in 1..Len(report[2]) :
            report[2][i].ticket_count
              = Cardinality(TicketsSoFar(FALSE, report[2][i].key))

\* Two workbooks, each with a row of the same key and ticket T1, one of them
\* padded: two rows included, one ticket reported.
C3_Witness ==
  /\ xlsx_paths = <<Book(<<TicketRow(PyStr(T1))>>), Book(<<TicketRow(PyStr(Pad(T1)))>>)>>
  /\ pc = "done"
  /\ included_main = 2
  /\ report[1][1].ticket_count = 1

\* ---------------------------------------------------------------------
\* The directory with the data rows of its workbooks rearranged by p, every
\* workbook keeping its number of rows.
AllStandard(paths) ==
  \A f \in 1..Len(paths) : paths[f].sheet /= <<>> /\ paths[f].sheet[1] = StdHeader

RECURSIVE DataRows(_, _)
DataRows(paths, f) ==
  IF f > Len(paths) THEN <<>> ELSE Tail(paths[f].sheet) \o DataRows(paths, f + 1)

RECURSIVE RowsBefore(_, _)
RowsBefore(paths, f) ==
  IF f = 1 THEN 0 ELSE RowsBefore(paths, f - 1) + Len(paths[f - 1].sheet) - 1

Orders(n) == {p \in [1..n -> 1..n] : \A i, j \in 1..n : p[i] = p[j] => i = j}

Rearranged(paths, p) ==
  LET rows == DataRows(paths, 1)
  IN  [f \in 1..Len(paths) |->
         [paths[f] EXCEPT !.sheet =
            <<StdHeader>> \o [i \in 1..(Len(paths[f].sheet) - 1) |->
                                rows[p[RowsBefore(paths, f) + i]]]]]

Entries(grouped) == {grouped[i] : i \in 1..Len(grouped)}

SameTotals(tally) ==
  /\ Entries(tally.grouped_main) = Entries(grouped_main)
  /\ Entries(tally.grouped_additional) = Entries(grouped_additional)
  /\ tally.included_main = included_main
  /\ tally.included_additional = included_additional
  /\ tally.skipped_desc = skipped_desc
  /\ tally.skipped_qty = skipped_qty

\* C2: the run of a directory ends with the same keys in each section and,
\* for every key, the same total_qty, total_cost, cost_count and tickets, and
\* with the same included and skipped counters, as the run of the directory
\* with its rows in any other order, within and across workbooks.
C2_OrderIndependent ==
  (pc = "done" /\ AllStandard(xlsx_paths)) =>
    \A p \in Orders(Len(DataRows(xlsx_paths, 1))) :
      SameTotals(RunOf(Rearranged(xlsx_paths, p)).tally)

\* What of C2 the code keeps in every order: all but the two float sums.
Counts(grouped) ==
  {[key |-> grouped[i].key, cost_count |-> grouped[i].agg.cost_count,
    ticket_set |-> grouped[i].agg.ticket_set] : i \in 1..Len(grouped)}

OrderIndependentCounts ==
  (pc = "done" /\ AllStandard(xlsx_paths)) =>
    \A p \in Orders(Len(DataRows(xlsx_paths, 1))) :
      LET tally == RunOf(Rearranged(xlsx_paths, p)).tally
      IN  /\ Counts(tally.grouped_main) = Counts(grouped_main)
          /\ Counts(tally.grouped_additional) = Counts(grouped_additional)
          /\ tally.included_main = included_main
          /\ tally.included_additional = included_additional
          /\ tally.skipped_desc = skipped_desc
          /\ tally.skipped_qty = skipped_qty

\* ---------------------------------------------------------------------
\* The order the report is to be in.  A level is numeric when it parses as
\* a number; "nan" parses as one and has no place among the others.
LevelNumber(level) == parse_number(PyStr(level))

RECURSIVE TextsBefore(_, _)
TextsBefore(a, b) ==
  IF a = <<>> \/ b = <<>> THEN FALSE
  ELSE IF Head(a) = Head(b) THEN TextsBefore(Tail(a), Tail(b))
  ELSE StrLt(Head(a), Head(b))

\* The parts of a key behind location and level, in their order.
Rest(key) == <<key[1]>> \o SubSeq(key, 3, Len(key))

KeyBefore(a, b) ==
  LET x == LevelNumber(a[2])
      y == LevelNumber(b[2])
  IN  IF x.t = "None" /\ y.t = "None"
        THEN TextsBefore(<<a[2]>> \o Rest(a), <<b[2]>> \o Rest(b))
      ELSE IF x.t = "None" THEN FALSE
      ELSE IF y.t = "None" THEN TRUE
      ELSE IF x.t = "nan" \/ y.t = "nan" THEN FALSE
      ELSE IF x.n /= y.n THEN x.n < y.n
      ELSE TextsBefore(<<a[2]>> \o Rest(a), <<b[2]>> \o Rest(b))

Ascending(section) ==
  \A i, j \in 1..Len(section) : i < j => ~KeyBefore(section[j].key, section[i].key)

\* C6: each section of the report is in ascending order of (level key,
\* location, [item type,] description, qty unit): numeric levels before the
\* others and by value, the others by their text.
C6_SectionsAscending == pc = "done" => Ascending(report[1]) /\ Ascending(report[2])

\* What of C6 the code keeps: the order of a report with no level "nan".
NoNaNLevel(section) ==
  \A i \in 1..Len(section) : LevelNumber(section[i].level).t /= "nan"

AscendingWithoutNaN ==
  pc = "done" =>
    /\ NoNaNLevel(report[1]) => Ascending(report[1])
    /\ NoNaNLevel(report[2]) => Ascending(report[2])
====
